---- MODULE Spec2Model ----
(***************************************************************************)
(* Model of the bounded recursive navigation of ForumVersusGAIA:           *)
(* pdf_finder_agent (the retry loop over search queries) and               *)
(* pdf_browsing_agent (one navigation step per invocation), over the       *)
(* append-only message tree of the agent framework.                        *)
(*                                                                         *)
(* Texts are records [scheme, netloc, rest, pad]: scheme and netloc are    *)
(* what urlparse() extracts, rest is the remaining characters and pad      *)
(* says whether the text carries surrounding whitespace (what str.strip    *)
(* removes).  An attribute a message may or may not have (page_url, pdf)   *)
(* is a set with at most one element: hasattr(msg, "page_url") is          *)
(* msg.page_url # {}.                                                      *)
(***************************************************************************)
EXTENDS Integers, Sequences, FiniteSets, TLC

VARIABLES
    forum,       \* the message tree: forum[i].prev is the parent of message i
    pc,          \* position of pdf_finder_agent
    queries,     \* the search queries parsed from the model's plan
    qi,          \* index of the query being processed
    attempt,     \* iterations of `for _ in range(MAX_RETRIES)` started for query qi
    responses,   \* concluding message of `responses` (0 is None)
    request,     \* request message of the pending pdf_browsing_agent invocation (0: none)
    depth,       \* `depth` argument of the latest pdf_browsing_agent invocation
    depth0,      \* depth a fresh attempt is asked with (default MAX_DEPTH)
    retries0,    \* number of attempts allowed per query (MAX_RETRIES)
    serving,     \* the pages a GET of each URL can return
    serpapi,     \* the results the search provider knows, in its ranking
    prompt,      \* what the latest step handed to the model, if it asked
    replies,     \* stripped replies of ask_gpt_for_url for the current query
    answers,     \* stripped replies to the READ_PDF prompt for the current query
    steps,       \* pdf_browsing_agent invocations for the current query
    ops,         \* searches, fetches and model calls for the current query
    fetched,     \* log of the fetches: request message, URL and what the GET returned
    dispatched,  \* URLs dispatched in the attempts of the current query so far
    earlier,     \* URLs dispatched in earlier attempts of the current query
    responded,   \* what pdf_finder_agent has responded with so far
    asked,       \* concluding request message of the pdf_finder_agent invocation
    gpc,         \* position of gaia_agent and arun_assistant ("off": not modelled)
    research_idx,          \* loop variable of gaia_agent
    accumulated_context,   \* `accumulated_context` of gaia_agent, as message indices
    assistant_responses,   \* the contents gaia_agent has responded with
    final_answer,          \* what arun_assistant returned, or how it ended
    pdf_reader,            \* the pages of the PDF that adownload_from_web received
    pdf_text,              \* what adownload_from_web made of them
    CAPTURED_DATA,         \* forum_versus_gaia_config.CAPTURED_DATA
    files,                 \* the files arun_assistant has written
    other,                 \* position of another question asked of the same forum
    user_utterances        \* what render_user_utterances returned, once it has

vars == <<forum, pc, queries, qi, attempt, responses, request, depth, depth0,
          retries0, serving, serpapi, prompt, replies, answers, steps, ops, fetched, dispatched,
          earlier, responded, asked, gpc, research_idx, accumulated_context,
          assistant_responses, final_answer, pdf_reader, pdf_text, CAPTURED_DATA, files,
          other, user_utterances>>

\* the state of gaia_agent and arun_assistant
outer == <<asked, gpc, research_idx, accumulated_context, assistant_responses, final_answer,
           pdf_reader, pdf_text, files, other, user_utterances>>

----------------------------------------------------------------------------
(* Program constants *)

MAX_RETRIES == 3
MAX_DEPTH == 7
PDF_MAX_TOKENS == 100000
REMOVE_GAIA_LINKS == TRUE
CAPTURE_MOCKING_DATA == FALSE
MAX_NUM_OF_RESEARCHES == 2

(* Bounds of the model *)

NumUrls == 2        \* distinct hosts the web, the search and the model can name
MaxQueries == 2     \* search queries in one plan of the model (with one attempt per query)
WideDepth == 2      \* largest depth budget explored with an unrestricted web

----------------------------------------------------------------------------
(* Texts *)

Txt(scheme, netloc, rest, pad) ==
    [scheme |-> scheme, netloc |-> netloc, rest |-> rest, pad |-> pad]

\* str.strip()
strip(t) == [t EXCEPT !.pad = FALSE]

\* the text in the letter case it came in
as_written(t) == t

\* str.upper() on the words the model knows
upper(t) ==
    [t EXCEPT !.rest = CASE t.rest = "mismatch" -> "MISMATCH"
                         [] t.rest = "Mismatch" -> "MISMATCH"
                         [] OTHER -> t.rest]

\* str.lower() on the links the search provider knows
lower(t) ==
    [t EXCEPT !.rest = CASE t.rest = "/GAIA-Benchmark/GAIA" -> "/gaia-benchmark/gaia"
                         [] OTHER -> t.rest]

\* `word in text`
contains(word, t) ==
    \/ word = "gaia-benchmark" /\ t.rest = "/gaia-benchmark/gaia"
    \/ word = "2311.12983" /\ t.rest = "/abs/2311.12983"

\* a scheme taken for a URL
has_scheme(text) == text.scheme # ""

is_valid_url(text) == text.scheme # "" /\ text.netloc # ""

HostNames == <<"a.org", "b.org", "c.org", "d.org", "e.org">>
Hosts == {HostNames[i] : i \in 1..NumUrls}
Url(h) == Txt("https", h, "", FALSE)
Urls == {Url(h) : h \in Hosts}

\* completions of ask_gpt_for_url: a URL, one of them also with whitespace
\* around it, or some text that is no URL
NotUrls ==
    { Txt("", "", "I could not find a link", FALSE),
      Txt("", "", "I could not find a link", TRUE),
      Txt("https", "", "", FALSE) }
Completions == Urls \cup {Txt("https", HostNames[1], "", TRUE)} \cup NotUrls

QueryNames == <<"query one", "query two", "query three">>
Query(i) == Txt("", "", QueryNames[i], FALSE)

\* completions of the READ_PDF prompt
PdfAnswers == {Txt("", "", w, p) : w \in {"mismatch", "MISMATCH", "PDF TITLE: ..."},
                                   p \in BOOLEAN}
              \cup {Txt("", "", "PDF TITLE: ... MISMATCH", FALSE)}

Question == Txt("", "", "the question", FALSE)

----------------------------------------------------------------------------
(* Messages *)

Msg(prev, sender, content, page_url, pdf, error) ==
    [prev |-> prev, sender |-> sender, content |-> content,
     page_url |-> page_url, pdf |-> pdf, error |-> error]

Range(s) == {s[i] : i \in 1..Len(s)}

\* MessageSequence.amaterialize_full_history(): the chain from the root of
\* the tree to message i, as indices
RECURSIVE Chain(_, _)
Chain(f, i) == IF i = 0 THEN <<>> ELSE Append(Chain(f, f[i].prev), i)

full_history(f, i) == [k \in 1..Len(Chain(f, i)) |-> f[Chain(f, i)[k]]]

\* the history without the request itself
acollect_tried_urls_before(f, req) ==
    UNION {msg.page_url : msg \in Range(full_history(f, f[req].prev))}

\* the page_url of every message the forum held when the request was made
acollect_tried_urls_of_forum(f, req) ==
    UNION {f[i].page_url : i \in 1..req}

acollect_tried_urls(f, req) ==
    UNION {msg.page_url : msg \in Range(full_history(f, req))}

\* only the PDFs that were accepted
acollect_accepted_pdfs(f, req) ==
    UNION {msg.pdf : msg \in {m \in Range(full_history(f, req)) : m.error = ""}}

acollect_checked_pdfs(f, req) ==
    UNION {msg.pdf : msg \in Range(full_history(f, req))}

\* only a content mismatch counts as an error
only_mismatch_errors(f, resp) == resp # 0 /\ f[resp].error = "ContentMismatchError"

acontains_errors(f, resp) == resp # 0 /\ f[resp].error # ""

----------------------------------------------------------------------------
(* The web and the search provider *)

Page(ctype, body, tokens) == [ctype |-> ctype, body |-> body, tokens |-> tokens]

Pages ==
    { Page("text/html", "page", 0),
      Page("image/png", "picture", 0),
      Page("application/pdf", "pdf one", PDF_MAX_TOKENS),
      Page("application/pdf", "pdf two", PDF_MAX_TOKENS + 1) }

\* a PDF read as HTML too
classify_all_as_html(page) ==
    IF page.ctype # "application/pdf" /\ page.ctype # "text/html" THEN "mismatch" ELSE "html"

\* whatever is no PDF read as HTML
classify_as_html(page) ==
    IF page.ctype = "application/pdf" THEN "pdf" ELSE "html"

\* adownload_from_web: "pdf", "html" or the ContentMismatchError
classify(page) ==
    IF page.ctype = "application/pdf" THEN "pdf"
    ELSE IF page.ctype # "text/html" THEN "mismatch"
    ELSE "html"

Result(link) == [link |-> link]

\* links of organic results: the URLs, and one with whitespace around it
Links == Urls \cup {Txt("https", HostNames[1], "", TRUE)}

\* the lists without repetition of the elements of S
RECURSIVE Lists(_)
Lists(S) == {<<>>} \cup UNION {{<<x>> \o s : s \in Lists(S \ {x})} : x \in S}

\* the results in the provider's ranking
Ranking == CHOOSE s \in Lists({Result(l) : l \in Links}) : Len(s) = Cardinality(Links)

\* result lists a provider can return: any of its results, in ranking order
Serps(ranking) ==
    {SelectSeq(ranking, LAMBDA result : result \in S) : S \in SUBSET Range(ranking)}

\* the results of a provider that knows the first site only
DeepRanking == SelectSeq(Ranking, LAMBDA result : result.link.netloc = HostNames[1])

\* links into the benchmark itself
GaiaLinks ==
    { Txt("https", "huggingface.co", "/gaia-benchmark/gaia", FALSE),
      Txt("https", "huggingface.co", "/GAIA-Benchmark/GAIA", FALSE),
      Txt("https", "arxiv.org", "/abs/2311.12983", FALSE) }

\* the results of a provider that also knows the benchmark, in its ranking
GaiaRanking ==
    <<Result(Txt("https", "huggingface.co", "/GAIA-Benchmark/GAIA", FALSE))>>
    \o Ranking
    \o <<Result(Txt("https", "arxiv.org", "/abs/2311.12983", FALSE)),
         Result(Txt("https", "huggingface.co", "/gaia-benchmark/gaia", FALSE))>>

\* the link compared without lowering its case
is_gaia_link_as_written(link) ==
    contains("gaia-benchmark", link) \/ contains("2311.12983", link)

\* line 119 of utils.py
is_gaia_link(link) ==
    contains("gaia-benchmark", lower(link)) \/ contains("2311.12983", link)

\* utils.py lines 113-129: what get_serpapi_results returns when the
\* provider answered organic_results
get_serpapi_results(organic_results, remove_gaia_links) ==
    IF remove_gaia_links
    THEN SelectSeq(organic_results, LAMBDA organic_result : ~is_gaia_link(organic_result.link))
    ELSE organic_results

\* the link compared as it came, whitespace and all
filter_tried_unstripped(organic_results, already_tried_urls) ==
    SelectSeq(organic_results, LAMBDA result : result.link \notin already_tried_urls)

\* line 143 of pdf_browsing_agent
filter_tried(organic_results, already_tried_urls) ==
    SelectSeq(organic_results, LAMBDA result : strip(result.link) \notin already_tried_urls)

\* the href attributes of the anchors of an HTML page, in document order: a
\* link of the page to itself, a link to every URL and a link to another page
\* of the first site
Anchors(web_content) ==
    <<Txt("", "", "", FALSE)>>
    \o [i \in 1..NumUrls |-> Url(HostNames[i])]
    \o <<Txt("https", HostNames[1], "/about", FALSE)>>

\* urllib.parse.urljoin as html2text applies it to an href
urljoin(baseurl, href) ==
    IF href.scheme # "" THEN href
    ELSE IF href.rest = "" THEN baseurl
    ELSE [baseurl EXCEPT !.rest = href.rest]

\* utils.py lines 170-176: the markdown of a page, as the list of its link
\* targets `(target)`
convert_html_to_markdown(html, baseurl) ==
    [k \in 1..Len(Anchors(html)) |-> urljoin(baseurl, Anchors(html)[k])]

\* the target `(#)`
Blank == Txt("", "", "#", FALSE)

\* every target into the site of a tried URL blanked
remove_tried_sites_in_markdown(prompt_context, tried_urls) ==
    [k \in 1..Len(prompt_context) |->
        IF \E url \in tried_urls : url.netloc = prompt_context[k].netloc
        THEN Blank ELSE prompt_context[k]]

\* lines 251-257: str.replace of "(url)" by "(#)" for every tried URL
remove_tried_urls_in_markdown(prompt_context, tried_urls) ==
    [k \in 1..Len(prompt_context) |->
        IF prompt_context[k] \in tried_urls THEN Blank ELSE prompt_context[k]]

\* the web with no restriction: any URL returns any page
WideWeb == [url \in Urls |-> Pages]

\* a web of one site that links to itself and to pictures
DeepWeb ==
    [url \in Urls |-> IF url = Url(HostNames[1]) THEN {Page("text/html", "page", 0)}
                      ELSE {Page("image/png", "picture", 0)}]

\* a web of one site with a page and a PDF, and pictures elsewhere
GaiaWeb ==
    [url \in Urls |-> IF url = Url(HostNames[1])
                      THEN {Page("text/html", "page", 0),
                            Page("application/pdf", "pdf one", PDF_MAX_TOKENS)}
                      ELSE {Page("image/png", "picture", 0)}]

\* what a GET of url can return
Get(url) == serving[url]

\* forum_versus_gaia_config.py lines 29-33
NoCapturedData == [openai |-> <<>>, serpapi |-> <<>>, web |-> <<>>]

\* the data captured whatever the configuration says
capture_always(data, kinds, question) ==
    [kind \in DOMAIN data |->
        IF kind \in kinds THEN Append(data[kind], question) ELSE data[kind]]

\* the appends to CAPTURED_DATA under `if CAPTURE_MOCKING_DATA` (utils.py
\* lines 121-128, 143-150, 159-166, forum_versus_gaia_config.py lines 36-64)
\* for the calls of the given kinds made for a question
capture(data, kinds, question) ==
    IF CAPTURE_MOCKING_DATA
    THEN [kind \in DOMAIN data |->
             IF kind \in kinds THEN Append(data[kind], question) ELSE data[kind]]
    ELSE data

NoPrompt ==
    [kind |-> "none", found |-> <<>>, raw |-> <<>>, results |-> <<>>,
     markdown |-> <<>>, context |-> <<>>, completion |-> <<>>, req |-> 0]

----------------------------------------------------------------------------
(* State after construction *)

Init ==
    /\ forum = <<Msg(0, "USER", Question, {}, {}, "")>>
    /\ pc = "plan"
    /\ queries = <<>>
    /\ qi = 0
    /\ attempt = 0
    /\ responses = 0
    /\ request = 0
    /\ \/ /\ depth0 \in 1..WideDepth
          /\ retries0 \in 1..(MAX_RETRIES - 1)
          /\ serving = WideWeb
          /\ serpapi = Ranking
       \/ /\ depth0 = MAX_DEPTH
          /\ retries0 = MAX_RETRIES
          /\ serving = DeepWeb
          /\ serpapi = DeepRanking
       \/ /\ depth0 = 1
          /\ retries0 = 1
          /\ serving = WideWeb
          /\ serpapi = GaiaRanking
    /\ depth = depth0
    /\ prompt = NoPrompt
    /\ replies = <<>>
    /\ answers = <<>>
    /\ steps = 0
    /\ ops = [search |-> 0, fetch |-> 0, model |-> 0]
    /\ fetched = {}
    /\ dispatched = {}
    /\ earlier = {}
    /\ responded = <<>>
    /\ asked = 1
    /\ gpc = "off"
    /\ research_idx = 0
    /\ accumulated_context = <<>>
    /\ assistant_responses = <<>>
    /\ final_answer = <<>>
    /\ pdf_reader = <<>>
    /\ pdf_text = <<>>
    /\ CAPTURED_DATA = NoCapturedData
    /\ files = {}
    /\ other = "off"
    /\ user_utterances = <<>>

----------------------------------------------------------------------------
(* pdf_browsing_agent: one action per path through the handler *)

BROWSING_AGENT == "BROWSING_AGENT"
PDF_FINDER_AGENT == "PDF_FINDER_AGENT"

ErrorText(words) == Txt("", "", words, FALSE)

config == <<depth0, retries0, serving, serpapi, queries, qi, attempt, outer>>

\* the handler raised: the framework delivers one error message, a child of
\* the request, as the concluding message of the asker's `responses`
Raise(error, content, page_url, pdf) ==
    /\ forum' = Append(forum, Msg(request, BROWSING_AGENT, content, page_url, pdf, error))
    /\ responses' = Len(forum) + 1
    /\ request' = 0
    /\ pc' = "check"
    /\ UNCHANGED <<depth, dispatched>>

\* the response delivered twice
Respond_twice(content, pdf) ==
    /\ forum' = forum \o <<Msg(request, BROWSING_AGENT, content, {}, pdf, ""),
                            Msg(request, BROWSING_AGENT, content, {}, pdf, "")>>
    /\ responses' = Len(forum) + 2
    /\ request' = 0
    /\ pc' = "check"
    /\ UNCHANGED <<depth, dispatched>>

\* ctx.respond(pdf_snippets, pdf=web_content)
Respond(content, pdf) ==
    /\ forum' = Append(forum, Msg(request, BROWSING_AGENT, content, {}, pdf, ""))
    /\ responses' = Len(forum) + 1
    /\ request' = 0
    /\ pc' = "check"
    /\ UNCHANGED <<depth, dispatched>>

\* the guard forgotten, one step too early, one step too late
never_too_many(d) == FALSE
too_many_steps_early(d) == d <= 1
too_many_steps_late(d) == d < 0

\* line 102: the entry guard
too_many_steps(d) == d <= 0

\* line 278
too_large(pdf_token_num) == pdf_token_num > PDF_MAX_TOKENS

\* the depth passed on as it is, or counted the wrong way
same_depth(d) == d
deeper(d) == d + 1

\* the depth the recursive invocation is told to run at
next_depth(d) == d - 1

\* the message told without its page_url attribute
Tell_without_attribute(page_url) ==
    /\ forum' = Append(forum, Msg(request, BROWSING_AGENT, page_url, {}, {}, ""))
    /\ request' = Len(forum) + 1
    /\ depth' = next_depth(depth)
    /\ dispatched' = dispatched \cup {page_url}
    /\ UNCHANGED <<responses, pc>>

\* a dispatch whose message has the URL as its content only
Tell_without_page_url(page_url) ==
    /\ forum' = Append(forum, Msg(request, BROWSING_AGENT, page_url, {}, {}, ""))
    /\ request' = Len(forum) + 1
    /\ depth' = next_depth(depth)
    /\ dispatched' = dispatched \cup {page_url}
    /\ UNCHANGED <<responses, pc>>

\* pdf_browsing_agent.tell(Message(content_template="{page_url}", page_url=page_url), depth=depth - 1)
Tell(page_url) ==
    /\ forum' = Append(forum, Msg(request, BROWSING_AGENT, page_url, {page_url}, {}, ""))
    /\ request' = Len(forum) + 1
    /\ depth' = next_depth(depth)
    /\ dispatched' = dispatched \cup {page_url}
    /\ UNCHANGED <<responses, pc>>

\* a URL of the tried-URL set refused instead of fetched again
AskForUrl_refusing_tried(completion) ==
    LET page_url == strip(completion) IN
    /\ replies' = Append(replies, page_url)
    /\ IF is_valid_url(page_url) /\ page_url \notin acollect_tried_urls(forum, request)
       THEN Tell(page_url)
       ELSE Raise("ContentNotFoundError", page_url, {}, {})

\* lines 153-167: ask_gpt_for_url, assert_valid_url, tell
AskForUrl(completion) ==
    LET page_url == strip(completion) IN
    /\ replies' = Append(replies, page_url)
    /\ IF is_valid_url(page_url)
       THEN Tell(page_url)
       ELSE Raise("ContentNotFoundError", page_url, {}, {})

\* lines 102-103
BrowseTooManySteps ==
    /\ pc = "await" /\ request # 0
    /\ too_many_steps(depth)
    /\ Raise("TooManyStepsError",
             ErrorText("I couldn't find a PDF document within a reasonable number of steps."),
             {}, {})
    /\ steps' = steps + 1
    /\ prompt' = NoPrompt
    /\ UNCHANGED <<config, replies, answers, ops, fetched, earlier, responded,
                   CAPTURED_DATA>>

\* lines 139-167: the request has no page_url
BrowseSearch ==
    /\ pc = "await" /\ request # 0
    /\ ~too_many_steps(depth)
    /\ forum[request].page_url = {}
    /\ \E found \in Serps(serpapi), completion \in Completions :
         LET already_tried_urls == acollect_tried_urls(forum, request)
             returned == get_serpapi_results(found, REMOVE_GAIA_LINKS)
             organic_results == filter_tried(returned, already_tried_urls)
         IN  /\ prompt' = [kind |-> "serp", found |-> found, raw |-> returned,
                           results |-> organic_results,
                           markdown |-> <<>>, context |-> <<>>,
                           completion |-> <<completion>>, req |-> request]
             /\ AskForUrl(completion)
    /\ steps' = steps + 1
    /\ ops' = [ops EXCEPT !.search = @ + 1, !.model = @ + 1]
    /\ CAPTURED_DATA' = capture(CAPTURED_DATA, {"serpapi", "openai"}, Question)
    /\ UNCHANGED <<config, answers, fetched, earlier, responded>>

\* lines 108-126: the page is a PDF
BrowsePdf ==
    /\ pc = "await" /\ request # 0
    /\ ~too_many_steps(depth)
    /\ forum[request].page_url # {}
    /\ \E url \in forum[request].page_url : \E page \in Get(url) :
         /\ classify(page) = "pdf"
         /\ fetched' = fetched \cup {[req |-> request, url |-> url, page |-> page]}
         /\ LET web_content == page.body
                already_checked_pdfs == acollect_checked_pdfs(forum, request)
            IN  IF web_content \in already_checked_pdfs
                THEN /\ Raise("ContentAlreadySeenError", ErrorText(""), {}, {})
                     /\ ops' = [ops EXCEPT !.fetch = @ + 1]
                     /\ prompt' = NoPrompt
                     /\ UNCHANGED answers
                ELSE IF too_large(page.tokens)
                THEN /\ Raise("ForumVersusGaiaError",
                              ErrorText("PDF partitioning is not implemented yet"),
                              {}, {web_content})
                     /\ ops' = [ops EXCEPT !.fetch = @ + 1]
                     /\ prompt' = NoPrompt
                     /\ UNCHANGED answers
                ELSE /\ ops' = [ops EXCEPT !.fetch = @ + 1, !.model = @ + 1]
                     /\ \E completion \in PdfAnswers :
                          LET answer == strip(completion) IN
                          /\ prompt' = [NoPrompt EXCEPT !.kind = "pdf",
                                                        !.completion = <<completion>>,
                                                        !.req = request]
                          /\ answers' = Append(answers, answer)
                          /\ IF upper(answer) = Txt("", "", "MISMATCH", FALSE)
                             THEN Raise("ContentMismatchError",
                                        ErrorText("This PDF document does not contain any relevant information."),
                                        {}, {web_content})
                             ELSE Respond(answer, {web_content})
    /\ steps' = steps + 1
    /\ CAPTURED_DATA' = capture(CAPTURED_DATA,
                                IF answers' # answers THEN {"web", "openai"} ELSE {"web"},
                                Question)
    /\ UNCHANGED <<config, replies, earlier, responded>>

\* line 109 and utils.py 153-157: neither a PDF nor HTML
BrowseUnexpected ==
    /\ pc = "await" /\ request # 0
    /\ ~too_many_steps(depth)
    /\ forum[request].page_url # {}
    /\ \E url \in forum[request].page_url : \E page \in Get(url) :
         /\ classify(page) = "mismatch"
         /\ fetched' = fetched \cup {[req |-> request, url |-> url, page |-> page]}
         /\ Raise("ContentMismatchError",
                  ErrorText("Expected a PDF or HTML document"), {url}, {})
    /\ steps' = steps + 1
    /\ ops' = [ops EXCEPT !.fetch = @ + 1]
    /\ prompt' = NoPrompt
    /\ UNCHANGED <<config, replies, answers, earlier, responded, CAPTURED_DATA>>

\* lines 128-137 and 153-167: the page is HTML
BrowseHtml ==
    /\ pc = "await" /\ request # 0
    /\ ~too_many_steps(depth)
    /\ forum[request].page_url # {}
    /\ \E url \in forum[request].page_url : \E page \in Get(url) :
         /\ classify(page) = "html"
         /\ fetched' = fetched \cup {[req |-> request, url |-> url, page |-> page]}
         /\ \E completion \in Completions :
              LET already_tried_urls == acollect_tried_urls(forum, request)
                  web_content == page.body
                  markdown == convert_html_to_markdown(web_content, url)
                  prompt_context == remove_tried_urls_in_markdown(markdown, already_tried_urls)
              IN  /\ prompt' = [kind |-> "page", found |-> <<>>, raw |-> <<>>,
                                results |-> <<>>,
                                markdown |-> markdown, context |-> prompt_context,
                                completion |-> <<completion>>, req |-> request]
                  /\ AskForUrl(completion)
    /\ steps' = steps + 1
    /\ ops' = [ops EXCEPT !.fetch = @ + 1, !.model = @ + 1]
    /\ CAPTURED_DATA' = capture(CAPTURED_DATA, {"web", "openai"}, Question)
    /\ UNCHANGED <<config, answers, earlier, responded>>

----------------------------------------------------------------------------
(* pdf_finder_agent *)

\* the longest plan explored: several queries with one attempt per query,
\* two of them at depth budget 2 or with two attempts at depth budget 1, one
\* query otherwise and under gaia_agent
MaxPlan ==
    CASE gpc # "off" -> 1
      [] retries0 = 1 /\ depth0 = 1 -> MaxQueries
      [] retries0 = 1 /\ depth0 = 2 -> 2
      [] retries0 = 2 /\ depth0 = 1 -> 2
      [] OTHER -> 1

\* line 73 and the split of line 76
FinderPlan ==
    /\ pc = "plan"
    /\ \E n \in 0..MaxPlan :
         /\ queries' = [i \in 1..n |-> Query(i)]
         /\ qi' = IF n = 0 THEN 0 ELSE 1
         /\ pc' = IF n = 0 THEN "done" ELSE "loop"
    /\ UNCHANGED <<forum, attempt, responses, request, depth, depth0, retries0, serving,
                   serpapi, prompt, replies, answers, steps, ops, fetched, dispatched, earlier,
                   responded, outer>>
    /\ CAPTURED_DATA' = capture(CAPTURED_DATA, {"openai"}, Question)

\* every attempt branched from the request of pdf_finder_agent
branch_from_clean(resp) == asked

\* what `branch_from=responses` makes the parent of the new request
branch_from(resp) == IF resp = 0 THEN asked ELSE resp

\* an attempt asked with the depth the attempt before it was left with
Ask_with_depth_left ==
    /\ forum' = Append(forum, Msg(branch_from(responses), PDF_FINDER_AGENT,
                                  queries[qi], {}, {}, ""))
    /\ request' = Len(forum) + 1
    /\ depth' = depth
    /\ attempt' = attempt + 1
    /\ pc' = "await"
    /\ prompt' = NoPrompt

\* line 80: responses = pdf_browsing_agent.ask(query, branch_from=responses)
Ask ==
    /\ forum' = Append(forum, Msg(branch_from(responses), PDF_FINDER_AGENT,
                                  queries[qi], {}, {}, ""))
    /\ request' = Len(forum) + 1
    /\ depth' = depth0
    /\ attempt' = attempt + 1
    /\ pc' = "await"
    /\ prompt' = NoPrompt

\* lines 76-80: the first attempt of a query
FinderAsk ==
    /\ pc = "loop"
    /\ attempt < retries0
    /\ Ask
    /\ replies' = <<>>
    /\ answers' = <<>>
    /\ steps' = 0
    /\ ops' = [search |-> 0, fetch |-> 0, model |-> 0]
    /\ dispatched' = {}
    /\ earlier' = {}
    /\ UNCHANGED <<queries, qi, responses, depth0, retries0, serving, serpapi, fetched,
                   responded, outer, CAPTURED_DATA>>

\* lines 79-82: the attempt contained an error and the loop goes on
FinderRetry ==
    /\ pc = "check"
    /\ acontains_errors(forum, responses)
    /\ attempt < retries0
    /\ Ask
    /\ earlier' = dispatched
    /\ UNCHANGED <<queries, qi, responses, depth0, retries0, serving, serpapi,
                   replies, answers, steps, ops, fetched, dispatched, responded, outer,
                   CAPTURED_DATA>>

\* a failed query forwarded as the last thing pdf_finder_agent does
FinderForward_giving_up ==
    /\ pc = "check"
    /\ ~acontains_errors(forum, responses) \/ attempt >= retries0
    /\ responded' = Append(responded, [query |-> qi, response |-> responses,
                                       branch_from |-> forum[responses].prev])
    /\ IF qi < Len(queries) /\ ~acontains_errors(forum, responses)
       THEN /\ qi' = qi + 1
            /\ attempt' = 0
            /\ pc' = "loop"
       ELSE /\ pc' = "done"
            /\ UNCHANGED <<qi, attempt>>
    /\ UNCHANGED <<forum, queries, responses, request, depth, depth0, retries0, serving,
                   serpapi, prompt, replies, answers, steps, ops, fetched, dispatched,
                   earlier, outer, CAPTURED_DATA>>

\* lines 81-94: the loop is left and the responses are forwarded
FinderForward ==
    /\ pc = "check"
    /\ ~acontains_errors(forum, responses) \/ attempt >= retries0
    /\ responded' = Append(responded, [query |-> qi, response |-> responses,
                                       branch_from |-> forum[responses].prev])
    /\ IF qi < Len(queries)
       THEN /\ qi' = qi + 1
            /\ attempt' = 0
            /\ pc' = "loop"
       ELSE /\ pc' = "done"
            /\ UNCHANGED <<qi, attempt>>
    /\ UNCHANGED <<forum, queries, responses, request, depth, depth0, retries0, serving,
                   serpapi, prompt, replies, answers, steps, ops, fetched, dispatched,
                   earlier, outer, CAPTURED_DATA>>

Next ==
    \/ FinderPlan
    \/ FinderAsk
    \/ FinderRetry
    \/ FinderForward
    \/ BrowseTooManySteps
    \/ BrowseSearch
    \/ BrowsePdf
    \/ BrowseUnexpected
    \/ BrowseHtml

\* one invocation of pdf_browsing_agent, from its entry to its end
Browse ==
    \/ BrowseTooManySteps
    \/ BrowseSearch
    \/ BrowsePdf
    \/ BrowseUnexpected
    \/ BrowseHtml

Spec == Init /\ [][Next]_vars

----------------------------------------------------------------------------
(* gaia_agent and arun_assistant *)

GAIA_AGENT == "GAIA_AGENT"

\* what slow_gpt_completion may answer: with the template or without it
Answered == Txt("", "", "Thoughts. FINAL ANSWER: 42", TRUE)
TwiceAnswered == Txt("", "", "FINAL ANSWER: 41 or rather FINAL ANSWER: 42", FALSE)
NotAnswered == Txt("", "", "I could not find the information", FALSE)
GaiaAnswers == {Answered, TwiceAnswered, NotAnswered}

DoingMoreResearch == Txt("", "", "DOING MORE RESEARCH...", FALSE)

\* the second message of the request of line 32
FoundSoFar == Txt("", "", "Information that was found so far", FALSE)

\* what fast_gpt_completion may say of the answer
CheckReplies == {"1", "2", "Option 1.", "2 (not 1)", "unclear"}

\* a digit 1 anywhere in the reply taken for the answer
any_digit_one(reply) ==
    CASE reply \in {"1", "Option 1.", "2 (not 1)"} -> "1"
      [] reply = "2" -> "2"
      [] OTHER -> ""

\* the first digit of the reply, found by the loop of lines 111-115
first_digit(reply) ==
    CASE reply \in {"1", "Option 1."} -> "1"
      [] reply \in {"2", "2 (not 1)"} -> "2"
      [] OTHER -> ""

\* content.split("FINAL ANSWER:")
split_final_answer(content) ==
    CASE content = Answered ->
           <<Txt("", "", "Thoughts.", TRUE), Txt("", "", "42", TRUE)>>
      [] content = TwiceAnswered ->
           <<Txt("", "", "", FALSE), Txt("", "", "41 or rather", TRUE),
             Txt("", "", "42", TRUE)>>
      [] OTHER -> <<content>>

\* the world gaia_agent runs in: the web and the provider of one site, one
\* link deep, a second attempt for a failed query, one query a plan
GaiaInit ==
    /\ forum = <<Msg(0, "USER", Question, {}, {}, "")>>
    /\ pc = "idle"
    /\ queries = <<>>
    /\ qi = 0
    /\ attempt = 0
    /\ responses = 0
    /\ request = 0
    /\ depth0 = 2
    /\ retries0 = 2
    /\ serving = GaiaWeb
    /\ serpapi = DeepRanking
    /\ depth = depth0
    /\ prompt = NoPrompt
    /\ replies = <<>>
    /\ answers = <<>>
    /\ steps = 0
    /\ ops = [search |-> 0, fetch |-> 0, model |-> 0]
    /\ fetched = {}
    /\ dispatched = {}
    /\ earlier = {}
    /\ responded = <<>>
    /\ asked = 1
    /\ gpc = "start"
    /\ research_idx = 0
    /\ accumulated_context = <<>>
    /\ assistant_responses = <<>>
    /\ final_answer = <<>>
    /\ pdf_reader = <<>>
    /\ pdf_text = <<>>
    /\ CAPTURED_DATA = NoCapturedData
    /\ files = {}
    /\ other = "off"
    /\ user_utterances = <<>>

\* a fresh invocation of pdf_finder_agent
FinderInvoked ==
    /\ pc' = "plan"
    /\ queries' = <<>>
    /\ qi' = 0
    /\ attempt' = 0
    /\ responses' = 0
    /\ request' = 0
    /\ depth' = depth0
    /\ replies' = <<>>
    /\ answers' = <<>>
    /\ steps' = 0
    /\ dispatched' = {}
    /\ earlier' = {}
    /\ responded' = <<>>

\* lines 126 and 25-39: the question is asked and the first research starts
GaiaStart ==
    /\ gpc = "start"
    /\ gpc' = "research"
    /\ FinderInvoked
    /\ prompt' = NoPrompt
    /\ UNCHANGED <<forum, depth0, retries0, serving, serpapi, ops, fetched, asked,
                   research_idx, accumulated_context, assistant_responses, final_answer,
                   pdf_reader, pdf_text, CAPTURED_DATA, files, other, user_utterances>>

\* the request of lines 28-39
GaiaAsk(context) ==
    IF context # <<>>
    THEN /\ forum' = Append(forum, Msg(1, GAIA_AGENT, FoundSoFar, {}, {}, ""))
         /\ asked' = Len(forum) + 1
    ELSE /\ asked' = 1
         /\ UNCHANGED forum

\* a response of gaia_agent: a message with its content, or the error the
\* handler ended with
Response(content, error) == [content |-> content, error |-> error]

\* a materialization that raises the first error of the sequence
amaterialize_raising(context_msgs) ==
    LET errors == SelectSeq(context_msgs, LAMBDA msg : forum[msg].error # "")
    IN  IF errors = <<>> THEN [raised |-> "", list |-> context_msgs]
        ELSE [raised |-> forum[errors[1]].error, list |-> <<>>]

\* line 41: the responses of pdf_finder_agent as a list of messages; an error
\* message is a message of the list like any other (pdf_finder_agent.py
\* lines 216-248 read the attributes of such messages)
amaterialize_as_list(context_msgs) == [raised |-> "", list |-> context_msgs]

\* the check made in every turn
always_checked(idx) == TRUE

\* line 108: this is not the last attempt at research yet
not_last_research(idx) == idx < MAX_NUM_OF_RESEARCHES - 1

\* gaia_agent is over
GaiaReturns ==
    /\ gpc' = "returned"
    /\ UNCHANGED <<forum, pc, queries, qi, attempt, responses, request, depth,
                   replies, answers, steps, dispatched, earlier, responded, asked,
                   research_idx>>

\* lines 41-116 and the next turn of the loop up to line 39
GaiaAnswer ==
    /\ gpc = "research"
    /\ pc = "done"
    /\ LET context_msgs == amaterialize_as_list(
                               [k \in 1..Len(responded) |-> responded[k].response])
           context == accumulated_context \o context_msgs.list
       IN  IF context_msgs.raised # ""
           THEN /\ assistant_responses' =
                      Append(assistant_responses,
                             Response(ErrorText(context_msgs.raised), context_msgs.raised))
                /\ UNCHANGED <<accumulated_context, prompt>>
                /\ GaiaReturns
           ELSE \E answer_msg \in GaiaAnswers, is_answered_msg \in CheckReplies :
                  LET answered == not_last_research(research_idx)
                                  /\ first_digit(is_answered_msg) = "1"
                      said == <<Response(answer_msg, "")>> \o
                              IF not_last_research(research_idx) /\ ~answered
                              THEN <<Response(DoingMoreResearch, "")>> ELSE <<>>
                  IN  /\ accumulated_context' = context
                      /\ assistant_responses' = assistant_responses \o said
                      /\ prompt' = IF not_last_research(research_idx)
                                   THEN [NoPrompt EXCEPT !.kind = "judge",
                                                         !.completion = <<is_answered_msg>>]
                                   ELSE NoPrompt
                      /\ IF ~answered /\ research_idx + 1 < MAX_NUM_OF_RESEARCHES
                         THEN /\ research_idx' = research_idx + 1
                              /\ GaiaAsk(context)
                              /\ FinderInvoked
                              /\ gpc' = "research"
                         ELSE GaiaReturns
    /\ CAPTURED_DATA' = capture(CAPTURED_DATA, {"openai"}, Question)
    /\ UNCHANGED <<depth0, retries0, serving, serpapi, ops, fetched, final_answer,
                   pdf_reader, pdf_text, files, other, user_utterances>>

\* lines 135-151 of arun_assistant
ArunReturn ==
    /\ gpc = "returned"
    /\ gpc' = "end"
    /\ LET concluding == assistant_responses[Len(assistant_responses)].content
           parts == split_final_answer(concluding)
       IN  IF Len(parts) >= 2
           THEN /\ final_answer' = <<strip(parts[2])>>
                /\ files' = files \cup {[question |-> Question, CAPTURED |-> CAPTURED_DATA]}
                /\ CAPTURED_DATA' = NoCapturedData
           ELSE /\ final_answer' = <<ErrorText("IndexError")>>
                /\ UNCHANGED <<files, CAPTURED_DATA>>
    /\ UNCHANGED <<forum, pc, queries, qi, attempt, responses, request, depth, depth0,
                   retries0, serving, serpapi, prompt, replies, answers, steps, ops,
                   fetched, dispatched, earlier, responded, asked, research_idx,
                   accumulated_context, assistant_responses, pdf_reader, pdf_text, other,
                   user_utterances>>

GaiaNext ==
    \/ Next
    \/ GaiaStart
    \/ GaiaAnswer
    \/ ArunReturn

GaiaSpec == GaiaInit /\ [][GaiaNext]_vars

----------------------------------------------------------------------------
(* adownload_from_web on a PDF, page by page *)

MaxPages == 3       \* pages of a PDF

\* a text is a sequence of characters
PageTexts == {<<>>, <<"a">>, <<"b", "\n", "c">>}

\* a page: the text pypdf finds on it, and whether extract_text raises on it
PdfPage(text, raises) == [text |-> text, raises |-> raises]

PdfPages == {PdfPage(text, raises) : text \in PageTexts, raises \in BOOLEAN}

RECURSIVE SeqsUpTo(_, _)
SeqsUpTo(S, n) ==
    IF n = 0 THEN {<<>>}
    ELSE LET shorter == SeqsUpTo(S, n - 1)
         IN  shorter \cup {Append(s, x) : s \in shorter, x \in S}

PdfDocuments == SeqsUpTo(PdfPages, MaxPages)

\* "\n".join(texts)
RECURSIVE join(_)
join(texts) ==
    IF texts = <<>> THEN <<>>
    ELSE IF Len(texts) = 1 THEN texts[1]
    ELSE texts[1] \o <<"\n">> \o join(Tail(texts))

\* utils.py line 142: the texts of the pages in order, joined; the exception
\* of a page leaves the list comprehension and adownload_from_web
extract_pdf_text(pages) ==
    IF \E k \in 1..Len(pages) : pages[k].raises
    THEN [raised |-> "PdfReadError", text |-> <<>>]
    ELSE [raised |-> "", text |-> join([k \in 1..Len(pages) |-> pages[k].text])]

\* a PDF has arrived: any pages, each of which may fail to be extracted
ExtractInit ==
    /\ forum = <<Msg(0, "USER", Question, {}, {}, "")>>
    /\ pc = "idle"
    /\ queries = <<>>
    /\ qi = 0
    /\ attempt = 0
    /\ responses = 0
    /\ request = 0
    /\ depth0 = 1
    /\ retries0 = 1
    /\ serving = WideWeb
    /\ serpapi = Ranking
    /\ depth = depth0
    /\ prompt = NoPrompt
    /\ replies = <<>>
    /\ answers = <<>>
    /\ steps = 0
    /\ ops = [search |-> 0, fetch |-> 0, model |-> 0]
    /\ fetched = {}
    /\ dispatched = {}
    /\ earlier = {}
    /\ responded = <<>>
    /\ asked = 1
    /\ gpc = "off"
    /\ research_idx = 0
    /\ accumulated_context = <<>>
    /\ assistant_responses = <<>>
    /\ final_answer = <<>>
    /\ pdf_reader \in PdfDocuments
    /\ pdf_text = <<>>
    /\ CAPTURED_DATA = NoCapturedData
    /\ files = {}
    /\ other = "off"
    /\ user_utterances = <<>>

\* utils.py lines 140-151: the PDF branch of adownload_from_web
DownloadPdf ==
    /\ pdf_text = <<>>
    /\ pdf_text' = <<extract_pdf_text(pdf_reader)>>
    /\ CAPTURED_DATA' = IF extract_pdf_text(pdf_reader).raised = ""
                        THEN capture(CAPTURED_DATA, {"web"}, Question)
                        ELSE CAPTURED_DATA
    /\ UNCHANGED <<forum, pc, queries, qi, attempt, responses, request, depth, depth0,
                   retries0, serving, serpapi, prompt, replies, answers, steps, ops,
                   fetched, dispatched, earlier, responded, asked, gpc, research_idx,
                   accumulated_context, assistant_responses, final_answer, pdf_reader,
                   files, other, user_utterances>>

ExtractNext == DownloadPdf

ExtractSpec == ExtractInit /\ [][ExtractNext]_vars

----------------------------------------------------------------------------
(* Another question asked of the same forum while this one is answered *)

MaxOther == 1       \* messages under the other question

OtherQuestion == Txt("", "", "another question", FALSE)

\* the first message of the tree message i is in
RECURSIVE Root(_, _)
Root(f, i) == IF f[i].prev = 0 THEN i ELSE Root(f, f[i].prev)

\* the messages of the tree of the given question, as indices
Tree(f, question) == {i \in 1..Len(f) : f[Root(f, i)].content = question}

\* what the agents that answer the other question can add below one of its
\* messages: a request for the page this question is sent to as well, or an
\* error on the PDF this question finds as well
OtherMessages(parent) ==
    {Msg(parent, BROWSING_AGENT, Url(HostNames[1]), {Url(HostNames[1])}, {}, ""),
     Msg(parent, BROWSING_AGENT,
         ErrorText("This PDF document does not contain any relevant information."),
         {}, {"pdf one"}, "ContentMismatchError")}

\* the world of two questions: the web and the provider of one site, one link
\* deep, a second attempt for a failed query, one query a plan
ConcurrentInit ==
    /\ forum = <<Msg(0, "USER", Question, {}, {}, "")>>
    /\ pc = "plan"
    /\ queries = <<>>
    /\ qi = 0
    /\ attempt = 0
    /\ responses = 0
    /\ request = 0
    /\ depth0 = 2
    /\ retries0 = 2
    /\ serving = GaiaWeb
    /\ serpapi = DeepRanking
    /\ depth = depth0
    /\ prompt = NoPrompt
    /\ replies = <<>>
    /\ answers = <<>>
    /\ steps = 0
    /\ ops = [search |-> 0, fetch |-> 0, model |-> 0]
    /\ fetched = {}
    /\ dispatched = {}
    /\ earlier = {}
    /\ responded = <<>>
    /\ asked = 1
    /\ gpc = "off"
    /\ research_idx = 0
    /\ accumulated_context = <<>>
    /\ assistant_responses = <<>>
    /\ final_answer = <<>>
    /\ pdf_reader = <<>>
    /\ pdf_text = <<>>
    /\ CAPTURED_DATA = NoCapturedData
    /\ files = {}
    /\ other = "idle"
    /\ user_utterances = <<>>

\* the state of this question's agents
mine == <<pc, queries, qi, attempt, responses, request, depth, depth0, retries0, serving,
          serpapi, prompt, replies, answers, steps, ops, fetched, dispatched, earlier,
          responded, asked, gpc, research_idx, accumulated_context, assistant_responses,
          final_answer, pdf_reader, pdf_text, user_utterances>>

\* gaia_agent.py line 126 for the other question: a new tree
OtherAsk ==
    /\ other = "idle"
    /\ forum' = Append(forum, Msg(0, "USER", OtherQuestion, {}, {}, ""))
    /\ other' = "asked"
    /\ UNCHANGED <<mine, CAPTURED_DATA, files>>

\* an append or a fork in the tree of the other question
OtherAppend ==
    /\ other = "asked"
    /\ Cardinality(Tree(forum, OtherQuestion)) <= MaxOther
    /\ \E parent \in Tree(forum, OtherQuestion) : \E msg \in OtherMessages(parent) :
         forum' = Append(forum, msg)
    /\ CAPTURED_DATA' = capture(CAPTURED_DATA, {"web", "openai"}, OtherQuestion)
    /\ UNCHANGED <<mine, files, other>>

\* gaia_agent.py lines 138-149 for the other question
OtherReturn ==
    /\ other = "asked"
    /\ files' = files \cup {[question |-> OtherQuestion, CAPTURED |-> CAPTURED_DATA]}
    /\ CAPTURED_DATA' = NoCapturedData
    /\ other' = "end"
    /\ UNCHANGED <<forum, mine>>

ConcurrentNext ==
    \/ Next
    \/ OtherAsk
    \/ OtherAppend
    \/ OtherReturn

ConcurrentSpec == ConcurrentInit /\ [][ConcurrentNext]_vars

----------------------------------------------------------------------------
(* Properties *)

Last(f) == f[Len(f)]
Failed == responses # 0 /\ forum[responses].error # ""
U1 == Url(HostNames[1])
U2 == Url(HostNames[2])
MISMATCH == Txt("", "", "MISMATCH", FALSE)
Navigating == {"await", "check"}

\* the ancestors of message i, itself included
Ancestors(i) ==
    LET up[k \in 0..Len(forum)] ==
            IF k = 0 THEN {} ELSE {k} \cup up[forum[k].prev]
    IN  up[i]

\* a measure that every step of the navigation decreases
PerAttempt == depth0 + 3
PerQuery == retries0 * PerAttempt + 1
Variant ==
    CASE pc = "plan"  -> (MaxQueries + 1) * PerQuery
      [] pc = "loop"  -> (Len(queries) - qi) * PerQuery + retries0 * PerAttempt
      [] pc = "await" -> (Len(queries) - qi) * PerQuery
                         + (retries0 - attempt) * PerAttempt + depth + 2
      [] pc = "check" -> (Len(queries) - qi) * PerQuery
                         + (retries0 - attempt) * PerAttempt + 1
      [] OTHER        -> 0

\* C1 as stated: the navigation for one query takes at most
\* initial_depth_budget + initial_retry_budget invocations of pdf_browsing_agent.
C1_WithinDepthPlusRetries == steps <= depth0 + retries0

\* C1 amended: every step decreases a measure bounded from below, a step is
\* possible until pdf_finder_agent is done (so every run terminates), and one
\* query takes at most retries * (depth + 1) invocations of pdf_browsing_agent.
C1_Terminates ==
    /\ [][Variant' < Variant]_vars
    /\ [](Variant >= 0)
    /\ [](pc # "done" => ENABLED Next)
    /\ [](steps <= retries0 * (depth0 + 1))

C1_Witness ==
    /\ pc = "done"
    /\ depth0 = MAX_DEPTH /\ retries0 = MAX_RETRIES
    /\ steps = MAX_RETRIES * (MAX_DEPTH + 1)

\* C2 as stated: while a query is navigated, the depth and the retry budget
\* never increase from one step to the next, retries included.
C2_BothNonIncreasing ==
    [][(pc \in Navigating /\ pc' \in Navigating)
        => (depth' <= depth /\ retries0 - attempt' <= retries0 - attempt)]_vars

\* C2 amended: the retry budget never increases; the depth never increases
\* within one attempt; a retry starts again at the initial depth.
C2_NonIncreasingWithinAttempt ==
    [][(pc \in Navigating /\ pc' \in Navigating)
        => /\ retries0 - attempt' <= retries0 - attempt
           /\ attempt' = attempt => depth' <= depth
           /\ attempt' # attempt => depth' = depth0]_vars

C2_Witness ==
    /\ pc = "await" /\ attempt = 2 /\ depth = depth0
    /\ forum[responses].error = "TooManyStepsError"
    /\ depth0 = MAX_DEPTH

\* C3: an invocation entered with depth <= 0 ends with TooManyStepsError and
\* performs no search, fetch or model call; no invocation is entered with the
\* retry budget used up; TooManyStepsError arises nowhere else.
C3_EntryGuard ==
    /\ [][/\ (pc = "await" /\ depth <= 0)
             => /\ Len(forum') = Len(forum) + 1
                /\ Last(forum').error = "TooManyStepsError"
                /\ Last(forum').prev = request
                /\ pc' = "check"
                /\ ops' = ops /\ fetched' = fetched
                /\ replies' = replies /\ answers' = answers
          /\ (Len(forum') > Len(forum) /\ Last(forum').error = "TooManyStepsError")
             => (pc = "await" /\ depth <= 0)]_vars
    /\ [](pc = "await" => retries0 - (attempt - 1) > 0)

C3_Witness ==
    /\ pc = "check" /\ forum[responses].error = "TooManyStepsError"
    /\ depth = 0 /\ steps = depth0 + 1

\* C4: a reply that is a valid URL makes the invocation dispatch exactly one
\* new invocation, whose request carries the URL as page_url, at depth - 1 and
\* in the same attempt.
C4_ValidUrlDispatch ==
    [][(Len(replies') = Len(replies) + 1 /\ is_valid_url(Last(replies')))
        => /\ Len(forum') = Len(forum) + 1
           /\ Last(forum').page_url = {Last(replies')}
           /\ Last(forum').content = Last(replies')
           /\ Last(forum').prev = request
           /\ Last(forum').error = ""
           /\ request' = Len(forum')
           /\ pc' = "await"
           /\ depth' = depth - 1
           /\ attempt' = attempt]_vars

C4_Witness ==
    /\ pc = "await" /\ forum[request].page_url = {U2}
    /\ depth = depth0 - 2 /\ attempt = 2

\* the request of the attempt that message i concludes
AttemptRequest(i) ==
    CHOOSE j \in Ancestors(i) :
        /\ forum[j].sender = PDF_FINDER_AGENT
        /\ \A k \in Ancestors(i) : forum[k].sender = PDF_FINDER_AGENT => k <= j

\* C5: a retry re-issues the query of the failed attempt, as a child of the
\* failed attempt's concluding message, with one retry less and the depth the
\* attempt was first asked with; every URL dispatched in the earlier attempts
\* is in the tried-URL set of every invocation of the retry.
C5_BacktrackRetry ==
    /\ [][(pc = "check" /\ pc' = "await")
           => /\ Failed
              /\ Len(forum') = Len(forum) + 1
              /\ Last(forum').content = forum[AttemptRequest(responses)].content
              /\ Last(forum').page_url = {}
              /\ Last(forum').prev = responses
              /\ request' = Len(forum')
              /\ attempt' = attempt + 1
              /\ depth' = depth0]_vars
    /\ [](pc = "await" => earlier \subseteq acollect_tried_urls(forum, request))

C5_Witness ==
    /\ pc = "await" /\ attempt = 2
    /\ earlier = {U1, U2}
    /\ forum[request].page_url # {}

\* C6: an attempt that ended in an error is followed by another attempt
\* while the retry budget lasts, whatever the kind of the error; the error is
\* forwarded only with the budget used up; after an attempt without an error
\* no further attempt is made for the query.
C6_RetryUntilExhausted ==
    [][/\ (pc = "check" /\ Failed /\ attempt < retries0)
          => (pc' = "await" /\ attempt' = attempt + 1 /\ responded' = responded)
       /\ (pc = "check" /\ Failed /\ Len(responded') > Len(responded))
          => attempt >= retries0
       /\ (pc = "check" /\ ~Failed)
          => (forum' = forum /\ Last(responded').response = responses
              /\ pc' \in {"loop", "done"})]_vars

C6_Witness ==
    /\ pc = "done" /\ Failed
    /\ attempt = MAX_RETRIES
    /\ {forum[i].error : i \in 1..Len(forum)}
         = {"", "ContentNotFoundError", "ContentMismatchError", "TooManyStepsError"}

\* the scenario: budgets 2 and 2, the search leads to the HTML page U1, the
\* model then suggests U1 again, and its next suggestion U2 is a PDF
DeadEndThenRecovery ==
    /\ depth0 = 2 /\ retries0 = 2
    /\ pc = "done"
    /\ replies = <<U1, U1, U2>>
    /\ \A f \in fetched : /\ f.url = U1 => classify(f.page) = "html"
                          /\ f.url = U2 => classify(f.page) = "pdf"
    /\ \E f \in fetched : f.url = U2

Succeeded == responses # 0 /\ forum[responses].error = "" /\ forum[responses].pdf # {}

\* C7 as stated: the scenario ends in success with one retry and one depth
\* unit consumed.
C7_RecoveryAlwaysSucceeds ==
    DeadEndThenRecovery => (Succeeded /\ attempt = 2 /\ depth = 1)

\* C7 amended: the scenario ends in success, in the second attempt and at
\* depth 1, when the PDF has at most PDF_MAX_TOKENS tokens and the model does
\* not judge it MISMATCH; no step uses up a retry and a depth unit together.
C7_RecoveryOfJudgedPdf ==
    /\ []((/\ DeadEndThenRecovery
           /\ \A f \in fetched : f.url = U2 => f.page.tokens <= PDF_MAX_TOKENS
           /\ \A k \in 1..Len(answers) : upper(answers[k]) # MISMATCH)
          => (Succeeded /\ attempt = 2 /\ depth = 1))
    /\ [][~(attempt' > attempt /\ depth' < depth)]_vars

C7_Witness == DeadEndThenRecovery /\ Succeeded /\ attempt = 2 /\ depth = 1

\* the scenario: budgets 1 and 1, the navigation of a query has ended and no
\* fetch has returned a PDF
Exhaustion ==
    /\ depth0 = 1 /\ retries0 = 1
    /\ pc = "check"
    /\ \A f \in fetched : classify(f.page) # "pdf"

\* C8 as stated: the scenario ends with TooManyStepsError whatever the model
\* replied.
C8_AlwaysTooManySteps == Exhaustion => forum[responses].error = "TooManyStepsError"

\* C8 amended: the scenario ends in an error after at most two invocations:
\* TooManyStepsError when the model's reply is a valid URL, and
\* ContentNotFoundError carrying the reply when it is not.
C8_ExhaustionFails ==
    /\ (depth0 = 1 /\ retries0 = 1) => steps <= 2
    /\ Exhaustion
       => /\ Len(replies) = 1
          /\ IF is_valid_url(replies[1])
             THEN forum[responses].error = "TooManyStepsError" /\ steps = 2
             ELSE /\ forum[responses].error = "ContentNotFoundError"
                  /\ forum[responses].content = replies[1]
                  /\ steps = 1

C8_Witness ==
    /\ Exhaustion /\ forum[responses].error = "TooManyStepsError"
    /\ fetched = {}

\* C9: the tried-URL set of a pending invocation holds only URLs carried by
\* a message of the request's ancestor chain, and holds every URL fetched for
\* a request of that chain as well as the URL of the request itself.
C9_TriedUrlsSoundAndComplete ==
    (pc = "await" /\ request # 0)
    => LET tried == acollect_tried_urls(forum, request) IN
       /\ \A u \in tried : \E i \in Ancestors(request) :
              forum[i].page_url = {u} \/ forum[i].content = u
       /\ \A f \in fetched : f.req \in Ancestors(request) => f.url \in tried
       /\ forum[request].page_url \subseteq tried

C9_Witness ==
    /\ pc = "await" /\ attempt = 2
    /\ forum[request].page_url = {U2}
    /\ \E f \in fetched : f.req \in Ancestors(request) /\ f.url = U1
    /\ U2 \notin {f.url : f \in fetched}

\* position of x in the list s without repetition
Position(s, x) == CHOOSE i \in 1..Len(s) : s[i] = x

\* the results kept are those whose link passes, in their original order
KeepsExactly(raw, results, Passes(_)) ==
    /\ Range(results) = {r \in Range(raw) : Passes(r)}
    /\ Len(results) = Cardinality(Range(results))
    /\ \A i, j \in 1..Len(results) :
           i < j => Position(raw, results[i]) < Position(raw, results[j])

\* C10 as stated: the results handed to the model are the results whose link
\* is not in the tried-URL set, in their original order.
C10_FilterByLink ==
    prompt.kind = "serp"
    => LET tried == acollect_tried_urls(forum, prompt.req) IN
       KeepsExactly(prompt.raw, prompt.results, LAMBDA r : r.link \notin tried)

\* C10 amended: the results handed to the model are the results whose link,
\* with the surrounding whitespace removed, is not in the tried-URL set, in
\* their original order; none of them has a link in the tried-URL set.
C10_FilterByStrippedLink ==
    prompt.kind = "serp"
    => LET tried == acollect_tried_urls(forum, prompt.req) IN
       /\ KeepsExactly(prompt.raw, prompt.results, LAMBDA r : strip(r.link) \notin tried)
       /\ \A r \in Range(prompt.results) : r.link \notin tried

C10_Witness ==
    /\ prompt.kind = "serp"
    /\ acollect_tried_urls(forum, prompt.req) = {U1}
    /\ Len(prompt.raw) = 3
    /\ Range(prompt.raw) = {Result(Txt("https", HostNames[1], "", TRUE)), Result(U2), Result(U1)}
    /\ prompt.results = <<Result(U2)>>

\* a link into the benchmark: gaia-benchmark in any letter case, or 2311.12983
InDenyList(link) ==
    link.rest \in {"/gaia-benchmark/gaia", "/GAIA-Benchmark/GAIA", "/abs/2311.12983"}

\* C11: with the removal on, no result returned by get_serpapi_results, and
\* so none handed to the model, has a link of the deny-list; the results it
\* returns are the provider's results whose link is not of the deny-list, in
\* their original order.
C11_DenyList ==
    prompt.kind = "serp"
    => /\ REMOVE_GAIA_LINKS
       /\ \A r \in Range(prompt.raw) \cup Range(prompt.results) : ~InDenyList(r.link)
       /\ KeepsExactly(prompt.found, prompt.raw, LAMBDA r : ~InDenyList(r.link))

C11_Witness ==
    /\ prompt.kind = "serp"
    /\ {r.link : r \in Range(prompt.found)} = GaiaLinks \cup {U1, U2}
    /\ {r.link : r \in Range(prompt.raw)} = {U1, U2}
    /\ Len(prompt.results) = 2

\* the messages of the attempt that message i belongs to, its request excluded
OfAttempt(i) == {k \in Ancestors(i) : k > AttemptRequest(i)}

\* the dispatches of the attempt that message i belongs to
Dispatches(i) == {k \in OfAttempt(i) : forum[k].page_url # {} /\ forum[k].error = ""}

\* C12: a reply that is a URL of the tried-URL set is dispatched like any
\* other URL, as a fetch at depth - 1 and with no error; an attempt has made
\* depth0 - depth dispatches, and depth never falls below 0; an attempt in
\* which every reply was a URL and every fetch returned HTML, tried URLs
\* included, ends with TooManyStepsError after depth0 dispatches.
C12_TriedUrlIsNormalAttempt ==
    /\ [][(/\ Len(replies') = Len(replies) + 1
            /\ is_valid_url(Last(replies'))
            /\ Last(replies') \in acollect_tried_urls(forum, request))
           => /\ Len(forum') = Len(forum) + 1
              /\ Last(forum').page_url = {Last(replies')}
              /\ Last(forum').prev = request
              /\ Last(forum').error = ""
              /\ request' = Len(forum')
              /\ pc' = "await"
              /\ depth' = depth - 1
              /\ attempt' = attempt]_vars
    /\ [](pc = "await"
           => depth >= 0 /\ Cardinality(Dispatches(request)) = depth0 - depth)
    /\ []((/\ pc = "check"
            /\ forum[responses].error # "ContentNotFoundError"
            /\ \A f \in fetched : f.req \in OfAttempt(responses) => classify(f.page) = "html")
           => /\ forum[responses].error = "TooManyStepsError"
              /\ Cardinality(Dispatches(responses)) = depth0)

C12_Witness ==
    /\ pc = "check" /\ attempt = 1 /\ depth0 = MAX_DEPTH
    /\ forum[responses].error = "TooManyStepsError"
    /\ Len(replies) = MAX_DEPTH
    /\ \A k \in 1..Len(replies) : replies[k] = U1

\* C13: the page text handed to the model has no link target that is a URL
\* of the tried-URL set: every such target of the page's markdown is blanked
\* to (#), the link of the page to itself included, and every other target
\* is as it was in the markdown.
C13_TriedLinksBlanked ==
    prompt.kind = "page"
    => LET tried == acollect_tried_urls(forum, prompt.req) IN
       /\ Len(prompt.context) = Len(prompt.markdown)
       /\ \A k \in 1..Len(prompt.context) :
            /\ prompt.context[k] \notin tried
            /\ prompt.markdown[k] \in tried => prompt.context[k] = Txt("", "", "#", FALSE)
            /\ prompt.markdown[k] \notin tried => prompt.context[k] = prompt.markdown[k]
       /\ \E k \in 1..Len(prompt.markdown) : prompt.markdown[k] \in forum[prompt.req].page_url

C13_Witness ==
    /\ prompt.kind = "page"
    /\ acollect_tried_urls(forum, prompt.req) = {U1}
    /\ prompt.markdown = <<U1, U1, U2, Txt("https", HostNames[1], "/about", FALSE)>>
    /\ prompt.context = <<Txt("", "", "#", FALSE), Txt("", "", "#", FALSE), U2,
                          Txt("https", HostNames[1], "/about", FALSE)>>

\* a text urlparse finds no scheme or no host in
NoUrl(text) == text.scheme = "" \/ text.netloc = ""

\* the step asked the model for a URL and the reply is no URL
InvalidReply ==
    /\ Len(replies') = Len(replies) + 1
    /\ NoUrl(strip(prompt'.completion[1]))

Unexpected(f) == f.page.ctype \notin {"application/pdf", "text/html"}

\* C15: a fetch that returns neither a PDF nor HTML ends the invocation with a
\* ContentMismatchError message carrying the page URL, without a model call;
\* while attempts are left pdf_finder_agent answers it with another attempt
\* branched from that message; the URL is in the tried-URL set of every
\* invocation of the retry, and the retry's search hands no result with that
\* link to the model.
C15_UnexpectedIsRecoverable ==
    /\ [][\A f \in fetched' \ fetched :
            Unexpected(f)
            => /\ Len(forum') = Len(forum) + 1
               /\ Last(forum').error = "ContentMismatchError"
               /\ Last(forum').page_url = {f.url}
               /\ Last(forum').prev = request
               /\ responses' = Len(forum')
               /\ pc' = "check"
               /\ ops'.model = ops.model
               /\ replies' = replies /\ answers' = answers]_vars
    /\ [][(/\ pc = "check"
            /\ forum[responses].error = "ContentMismatchError"
            /\ forum[responses].page_url # {}
            /\ attempt < retries0)
           => /\ pc' = "await"
              /\ attempt' = attempt + 1
              /\ Last(forum').prev = responses
              /\ Last(forum').content = queries[qi]
              /\ request' = Len(forum')]_vars
    /\ [](\A f \in fetched :
            Unexpected(f)
            => /\ (pc = "await" /\ f.req \in Ancestors(request))
                  => f.url \in acollect_tried_urls(forum, request)
               /\ (prompt.kind = "serp" /\ f.req \in Ancestors(prompt.req))
                  => \A r \in Range(prompt.results) : strip(r.link) # f.url)

C15_Witness ==
    /\ prompt.kind = "serp" /\ attempt = 2
    /\ forum[forum[prompt.req].prev].error = "ContentMismatchError"
    /\ forum[forum[prompt.req].prev].page_url = {U1}
    /\ \E f \in fetched : Unexpected(f) /\ f.url = U1 /\ f.req \in Ancestors(prompt.req)
    /\ Result(U1) \in Range(prompt.raw)
    /\ Result(U1) \notin Range(prompt.results)

\* the PDF texts carried by the ancestors of message i
SeenBefore(i) == UNION {forum[k].pdf : k \in Ancestors(i)}

\* C16: a fetch that returns a PDF text carried by an ancestor message, an
\* accepted or a rejected one, ends the invocation with
\* ContentAlreadySeenError and without a model call; the model is asked to
\* judge only texts no ancestor carries; so no text is carried by two
\* messages of one branch.
C16_AlreadySeenShortCircuit ==
    /\ [][\A f \in fetched' \ fetched :
            (f.page.ctype = "application/pdf" /\ f.page.body \in SeenBefore(request))
            => /\ Len(forum') = Len(forum) + 1
               /\ Last(forum').error = "ContentAlreadySeenError"
               /\ Last(forum').pdf = {}
               /\ Last(forum').prev = request
               /\ pc' = "check"
               /\ ops'.model = ops.model
               /\ answers' = answers]_vars
    /\ [][Len(answers') = Len(answers) + 1
           => \E f \in fetched' \ fetched :
                /\ f.page.body \notin SeenBefore(request)
                /\ Last(forum').pdf = {f.page.body}]_vars
    /\ [](\A i, j \in Ancestors(Len(forum)) :
            i # j => forum[i].pdf \cap forum[j].pdf = {})

C16_Witness ==
    /\ pc = "check" /\ qi = 2
    /\ forum[responses].error = "ContentAlreadySeenError"
    /\ \E i \in Ancestors(responses) :
         /\ forum[i].error = "" /\ forum[i].pdf # {}
         /\ \E f \in fetched : f.req = forum[responses].prev /\ forum[i].pdf = {f.page.body}

C16_WitnessRejected ==
    /\ pc = "check" /\ attempt = 2
    /\ forum[responses].error = "ContentAlreadySeenError"
    /\ \E i \in Ancestors(responses) :
         /\ forum[i].error = "ContentMismatchError" /\ forum[i].pdf # {}
         /\ \E f \in fetched : f.req = forum[responses].prev /\ forum[i].pdf = {f.page.body}

----------------------------------------------------------------------------
(* gaia_agent and arun_assistant: checked under GaiaSpec *)

\* pdf_finder_agent gave up on a query: its retry budget is spent and what it
\* forwarded is the error of the last attempt
FailureBubbled ==
    \E k \in 1..Len(responded) : forum[responded[k].response].error # ""

C19_WitnessFirstRound ==
    /\ gpc = "end"
    /\ research_idx = 0
    /\ Len(assistant_responses) = 1
    /\ final_answer = <<Txt("", "", "42", FALSE)>>

----------------------------------------------------------------------------
(* PDF extraction: checked under ExtractSpec *)

\* the page texts with the text of a failed page replaced by the empty string
Degraded(pages) ==
    [k \in 1..Len(pages) |-> IF pages[k].raises THEN <<>> ELSE pages[k].text]

\* C18: extraction degrades per page: whatever pages fail, the fetch of a PDF
\* is not aborted and returns the texts of the pages joined with newlines,
\* with the empty string in the place of every failed page.
C18_DegradesPerPage ==
    pdf_text # <<>> =>
        /\ pdf_text[1].raised = ""
        /\ pdf_text[1].text = join(Degraded(pdf_reader))

----------------------------------------------------------------------------
(* Two questions in one forum: checked under ConcurrentSpec *)

\* the position message i has when only the messages `own` are kept
Renumber(own, i) == IF i = 0 THEN 0 ELSE Cardinality({j \in own : j <= i})

\* the forum as it is when this question runs alone: the messages of its tree
Alone(f) ==
    LET own == Tree(f, Question)
        kept == SelectSeq([i \in 1..Len(f) |-> i], LAMBDA i : i \in own)
    IN  [k \in 1..Len(kept) |-> [f[kept[k]] EXCEPT !.prev = Renumber(own, @)]]

\* what the agents of this question see and have produced
ViewOf(f, req, resps, rspd, state) ==
    [state |-> state,
     history |-> IF req = 0 THEN <<>> ELSE full_history(f, req),
     tried_urls |-> IF req = 0 THEN {} ELSE acollect_tried_urls(f, req),
     checked_pdfs |-> IF req = 0 THEN {} ELSE acollect_checked_pdfs(f, req),
     errors |-> acontains_errors(f, resps),
     outcome |-> [k \in 1..Len(rspd) |-> f[rspd[k].response]]]

\* what was captured for this question and is not yet written to a file
MyCaptured(data) ==
    [kind \in DOMAIN data |-> SelectSeq(data[kind], LAMBDA question : question = Question)]

\* a step of the other question
OtherStep ==
    \/ other' # other
    \/ /\ Len(forum') > Len(forum)
       /\ forum'[Root(forum', Len(forum'))].content = OtherQuestion

----------------------------------------------------------------------------
(* pdf_browsing_agent, one invocation at a time: checked under Spec *)

\* an invocation of pdf_browsing_agent has run
Invoked == steps' = steps + 1

\* the ways an invocation can end, told by the one message it leaves
Succeeds(msg) == msg.error = "" /\ msg.page_url = {}
Fails(msg) == msg.error # ""
Delegates(msg) == msg.error = "" /\ msg.page_url # {}

\* the replies to the attempt asked with request r
Replies(r) ==
    {i \in 1..Len(forum) : /\ forum[i].sender = BROWSING_AGENT
                           /\ ~Delegates(forum[i])
                           /\ AttemptRequest(i) = r}

\* C21: every invocation of pdf_browsing_agent ends in exactly one message
\* below its request: one success response or one failure, which is then the
\* reply the asker gets, or one delegation, which is then the request of the
\* single next invocation; a dispatched invocation can always run, so the
\* asker never waits for ever, and it gets one reply per chain of dispatches.
C21_OneReplyPerDispatch ==
    /\ [][Invoked =>
            LET msg == forum'[Len(forum')] IN
            /\ Len(forum') = Len(forum) + 1
            /\ msg.prev = request
            /\ \/ /\ Succeeds(msg) \/ Fails(msg)
                  /\ responses' = Len(forum')
                  /\ request' = 0
                  /\ pc' = "check"
               \/ /\ Delegates(msg)
                  /\ Cardinality(msg.page_url) = 1
                  /\ request' = Len(forum')
                  /\ responses' = responses
                  /\ pc' = "await"]_vars
    /\ [][pc = "await" /\ pc' # "await" => Invoked]_vars
    /\ [](pc = "await" => request # 0 /\ ENABLED Browse)
    /\ [](\A r \in 1..Len(forum) :
            forum[r].sender = PDF_FINDER_AGENT =>
               Cardinality(Replies(r))
                 = IF pc = "await" /\ AttemptRequest(request) = r THEN 0 ELSE 1)

\* a chain of two invocations, a delegation and a success, has replied in a
\* second attempt, after a chain of three that failed
C21_Witness ==
    /\ pc = "check"
    /\ attempt = 2
    /\ steps = 5
    /\ Succeeds(forum[responses])
    /\ Delegates(forum[forum[responses].prev])
    /\ forum[forum[forum[responses].prev].prev].sender = PDF_FINDER_AGENT

\* the invocation fetched a PDF
FetchedPdf ==
    \E f \in fetched' \ fetched : f.page.ctype = "application/pdf"

\* C22: an invocation that fetched a PDF is terminal: it leaves one message
\* that is either the response with the snippets, which carries the text of
\* the PDF as its pdf attribute, or a failure; the model is not asked for a
\* URL and nothing is dispatched.
C22_PdfIsTerminal ==
    [][FetchedPdf =>
         LET msg == forum'[Len(forum')] IN
         /\ Len(forum') = Len(forum) + 1
         /\ msg.prev = request
         /\ pc' = "check"
         /\ responses' = Len(forum')
         /\ request' = 0
         /\ replies' = replies
         /\ dispatched' = dispatched
         /\ depth' = depth
         /\ prompt'.kind \notin {"serp", "page"}
         /\ \/ Fails(msg)
            \/ /\ Succeeds(msg)
               /\ Len(answers') = Len(answers) + 1
               /\ msg.content = answers'[Len(answers')]
               /\ \E f \in fetched' \ fetched : msg.pdf = {f.page.body}]_vars

\* a PDF was fetched and its snippets are the response
C22_Witness ==
    /\ pc = "check"
    /\ Succeeds(forum[responses])
    /\ forum[responses].pdf = {"pdf one"}
    /\ forum[responses].content = Txt("", "", "PDF TITLE: ...", FALSE)
    /\ \E f \in fetched : f.req = forum[responses].prev /\ f.page.body = "pdf one"

\* the READ_PDF prompt was answered
Judged == prompt'.kind = "pdf" /\ Len(answers') = Len(answers) + 1

\* the reply is the one word, in some letter case, with or without
\* whitespace around it
IsMismatch(completion) == completion.rest \in {"mismatch", "Mismatch", "MISMATCH"}

\* the judgment as C23 states it, with the reply that `returned` makes of a
\* completion that is no MISMATCH
JudgedAs(returned(_)) ==
    Judged =>
       LET completion == prompt'.completion[1]
           msg == forum'[Len(forum')]
           web_content == {f.page.body : f \in fetched' \ fetched}
       IN  /\ Len(forum') = Len(forum) + 1
           /\ msg.pdf = web_content
           /\ IF IsMismatch(completion)
              THEN /\ Fails(msg)
                   /\ msg.error = "ContentMismatchError"
              ELSE /\ Succeeds(msg)
                   /\ msg.content = returned(completion)

\* C23 as stated: a reply that is no MISMATCH is returned unchanged.
C23_ReturnedUnchanged == [][JudgedAs(LAMBDA completion : completion)]_vars

\* C23 amended: when the reply to the READ_PDF prompt is, after trimming, the
\* word MISMATCH in any letter case, the invocation responds nothing and fails
\* with ContentMismatchError carrying the text of the PDF, and that text is
\* among the checked PDFs of every later message of the branch; any other
\* reply is the success response, with the whitespace around it removed.
C23_MismatchFails ==
    /\ [][JudgedAs(LAMBDA completion : strip(completion))]_vars
    /\ [](\A i \in 1..Len(forum) :
            forum[i].error = "ContentMismatchError" =>
               \A j \in 1..Len(forum) :
                  i \in Ancestors(j) => forum[i].pdf \subseteq acollect_checked_pdfs(forum, j))

\* the PDF was judged mismatch, in lower case with whitespace around, and the
\* second attempt has got to a request that counts it as checked
C23_Witness ==
    /\ pc = "await"
    /\ attempt = 2
    /\ request # 0
    /\ acollect_checked_pdfs(forum, request) = {"pdf one"}
    /\ forum[forum[AttemptRequest(request)].prev].error = "ContentMismatchError"
    /\ answers = <<Txt("", "", "mismatch", FALSE)>>

\* C24: a PDF of more than PDF_MAX_TOKENS tokens, not seen before, has its
\* snippets extracted chunk by chunk: the invocation responds with them, or
\* fails with ContentMismatchError when the document is the wrong one; a PDF
\* of at most PDF_MAX_TOKENS tokens is judged in a single call of the model.
C24_LargePdfIsPartitioned ==
    [][\A f \in fetched' \ fetched :
          (/\ f.page.ctype = "application/pdf"
           /\ f.page.body \notin acollect_checked_pdfs(forum, request))
          => LET msg == forum'[Len(forum')] IN
             IF f.page.tokens > PDF_MAX_TOKENS
             THEN Succeeds(msg) \/ msg.error = "ContentMismatchError"
             ELSE ops'.model = ops.model + 1]_vars


\* pdf_finder_agent is invoked
FinderStarts == pc' = "plan" /\ pc # "plan"

\* gaia_agent emits the answer of a research round
RoundAnswered == gpc = "research" /\ Len(assistant_responses') > Len(assistant_responses)

\* the judge's reply has the digit 1 before any other digit
FirstDigitIsOne(reply) == reply \in {"1", "Option 1."}

\* the answer messages gaia_agent has emitted so far
AnswerMessages ==
    {k \in 1..Len(assistant_responses) :
        assistant_responses[k].error = "" /\ assistant_responses[k].content \in GaiaAnswers}

\* C25: gaia_agent makes at most MAX_NUM_OF_RESEARCHES rounds of research;
\* every invocation of pdf_finder_agent opens a round of its own, and every
\* round ends with one answer message; after the first round the judge is
\* consulted, and a second round follows exactly when the first digit of its
\* reply is not 1, a reply with no digit included; after the last round the
\* judge is not consulted and gaia_agent returns.
C25_AtMostTwoRounds ==
    /\ [](research_idx + 1 <= MAX_NUM_OF_RESEARCHES)
    /\ [][FinderStarts
           => IF gpc = "start" THEN research_idx' = 0 /\ research_idx = 0
              ELSE RoundAnswered /\ research_idx' = research_idx + 1]_vars
    /\ [](Cardinality(AnswerMessages) =
            IF gpc \in {"start", "research"} THEN research_idx ELSE research_idx + 1)
    /\ [][RoundAnswered
           => /\ Cardinality({k \in Len(assistant_responses) + 1..Len(assistant_responses') :
                                assistant_responses'[k].content \in GaiaAnswers}) = 1
              /\ IF research_idx + 1 < MAX_NUM_OF_RESEARCHES
                 THEN /\ prompt'.kind = "judge"
                      /\ FinderStarts <=> ~FirstDigitIsOne(prompt'.completion[1])
                      /\ ~FinderStarts <=> gpc' = "returned"
                 ELSE /\ prompt'.kind # "judge"
                      /\ ~FinderStarts
                      /\ gpc' = "returned"]_vars

\* the judge's reply after round one has no digit and the second round starts
C25_Witness ==
    /\ gpc = "research" /\ pc = "plan" /\ research_idx = 1
    /\ prompt.kind = "judge" /\ prompt.completion = <<"unclear">>
    /\ Cardinality(AnswerMessages) = 1


\* an attempt at the current query starts
AttemptStarts == attempt' = attempt + 1

\* C26: every attempt starts at the initial depth, whatever depth the attempt
\* before it ended at, with a request that has no page_url; so one query takes
\* at most retries * (depth + 1) invocations of pdf_browsing_agent and at most
\* retries * (depth - 1) fetches, MAX_RETRIES * (MAX_DEPTH + 1) and
\* MAX_RETRIES * (MAX_DEPTH - 1) with the defaults.
C26_FreshDepthPerAttempt ==
    /\ [][AttemptStarts
           => /\ depth' = depth0
              /\ request' = Len(forum')
              /\ forum'[request'].page_url = {}
              /\ forum'[request'].sender = PDF_FINDER_AGENT]_vars
    /\ [](pc \in Navigating
          => /\ steps <= attempt * (depth0 + 1)
             /\ ops.fetch <= attempt * (depth0 - 1)
             /\ attempt <= retries0)
    /\ []((depth0 = MAX_DEPTH /\ retries0 = MAX_RETRIES /\ qi > 0)
          => /\ steps <= MAX_RETRIES * (MAX_DEPTH + 1)
             /\ ops.fetch <= MAX_RETRIES * (MAX_DEPTH - 1))

\* both bounds are met: three attempts that each used the whole depth
C26_Witness ==
    /\ pc = "done"
    /\ depth0 = MAX_DEPTH /\ retries0 = MAX_RETRIES /\ attempt = MAX_RETRIES
    /\ steps = MAX_RETRIES * (MAX_DEPTH + 1)
    /\ ops.fetch = MAX_RETRIES * (MAX_DEPTH - 1)
    /\ ops.search = MAX_RETRIES


\* the step queried the search provider / made a GET
Searched == ops'.search = ops.search + 1
Fetched == ops'.fetch = ops.fetch + 1 /\ fetched' # fetched

\* the request is the one pdf_finder_agent opened the attempt with
FirstInvocation == forum[request].sender = PDF_FINDER_AGENT

\* the first invocation of an attempt searches and does not fetch; `fetches`
\* tells whether a dispatched invocation makes a GET
SearchOrFetch(fetches) ==
    Invoked
    => IF FirstInvocation
       THEN forum[request].page_url = {} /\ Searched /\ ops'.fetch = ops.fetch
       ELSE /\ forum[request].page_url # {}
            /\ ops'.search = ops.search
            /\ Fetched <=> fetches

\* an attempt has made its one search once its first invocation is over, and
\* the fetches are made by the invocations dispatched after it
SearchComesFirst ==
    /\ \A f \in fetched : forum[f.req].sender = BROWSING_AGENT
    /\ pc \in Navigating
       => ops.search = IF pc = "await" /\ FirstInvocation THEN attempt - 1 ELSE attempt

\* C27 as stated: only the first invocation of an attempt searches, and every
\* dispatched invocation carries a page_url and makes a fetch.
C27_DispatchedAlwaysFetches ==
    /\ [][SearchOrFetch(TRUE)]_vars
    /\ [][Searched => \A f \in fetched : f.req < request]_vars
    /\ []SearchComesFirst

\* C27 amended: only the first invocation of an attempt, whose request has no
\* page_url, searches; every dispatched invocation carries a page_url and
\* never searches: it makes a fetch unless its depth is 0, and then it fails
\* with TooManyStepsError without a fetch; so an attempt has one search, made
\* before all of its fetches.
C27_SearchOnlyFirst ==
    /\ [][SearchOrFetch(depth > 0)]_vars
    /\ [][Searched => FirstInvocation /\ \A f \in fetched : f.req < request]_vars
    /\ []SearchComesFirst
    /\ [][(Invoked /\ depth <= 0) => Last(forum').error = "TooManyStepsError"]_vars

\* an attempt of one search, one fetch and the invocation at depth 0
C27_Witness ==
    /\ pc = "check" /\ attempt = 1 /\ steps = 3
    /\ forum[responses].error = "TooManyStepsError"
    /\ forum[forum[responses].prev].page_url # {}
    /\ ops.search = 1 /\ ops.fetch = 1


\* the messages of the branches that the earlier queries ended with
OfEarlierQueries == UNION {Ancestors(responded[k].response) : k \in 1..Len(responded)}

\* the URLs dispatched and the PDF texts carried for the earlier queries
TriedEarlier == UNION {forum[i].page_url : i \in OfEarlierQueries}
CheckedEarlier == UNION {forum[i].pdf : i \in OfEarlierQueries}

\* the message the navigation of the current query stands at
Standing == IF pc = "await" THEN request ELSE responses

\* C28: the first attempt of a later query is asked as a child of what the
\* query before it ended with; so while a query is navigated the branch holds
\* the messages of every earlier query, their URLs are in the tried-URL set
\* and their PDF texts in the checked-PDF set; no search result handed to the
\* model has such a URL as its link, and a fetch that returns such a PDF text
\* ends with ContentAlreadySeenError and without a model call.
C28_LaterQuerySeesEarlier ==
    /\ [][(attempt = 0 /\ attempt' = 1 /\ qi > 1)
           => /\ Len(responded) = qi - 1
              /\ forum'[request'].prev = Last(responded).response
              /\ forum'[request'].content = queries[qi]]_vars
    /\ [](pc \in Navigating
          => /\ Len(responded) = qi - 1
             /\ OfEarlierQueries \subseteq Ancestors(Standing)
             /\ TriedEarlier \subseteq acollect_tried_urls(forum, Standing)
             /\ CheckedEarlier \subseteq acollect_checked_pdfs(forum, Standing)
             /\ prompt.kind = "serp"
                => \A r \in Range(prompt.results) : strip(r.link) \notin TriedEarlier)
    /\ [][\A f \in fetched' \ fetched :
            (f.page.ctype = "application/pdf" /\ f.page.body \in CheckedEarlier)
            => /\ Last(forum').error = "ContentAlreadySeenError"
               /\ ops'.model = ops.model]_vars

\* the second query reaches the PDF that the first query was answered with
C28_Witness ==
    /\ pc = "check" /\ qi = 2 /\ Len(responded) = 1
    /\ forum[responded[1].response].error = ""
    /\ forum[AttemptRequest(responses)].prev = responded[1].response
    /\ forum[responses].error = "ContentAlreadySeenError"
    /\ \E f \in fetched :
         /\ f.req = forum[responses].prev
         /\ forum[responded[1].response].pdf = {f.page.body}
    /\ forum[forum[responses].prev].page_url \subseteq TriedEarlier


\* pdf_finder_agent responds
Forwards == Len(responded') = Len(responded) + 1

\* the messages pdf_finder_agent has sent
SentByFinder == {i \in 1..Len(forum) : forum[i].sender = PDF_FINDER_AGENT}

\* C29: pdf_finder_agent responds once per query of the plan and in the order
\* of the plan, with what the last attempt of the query ended with, a failure
\* when the attempts are spent; after a failed query the next query of the
\* plan is attempted; with a plan of no query nothing is asked of
\* pdf_browsing_agent and nothing is responded.
C29_OneResponsePerQuery ==
    /\ [](/\ Len(responded) <= Len(queries)
          /\ \A k \in 1..Len(responded) : responded[k].query = k
          /\ pc \in Navigating => Len(responded) = qi - 1
          /\ pc = "loop" => Len(responded) = qi - 1 /\ ENABLED FinderAsk
          /\ pc = "done" => Len(responded) = Len(queries))
    /\ [][Forwards
           => /\ responded' = Append(responded, Last(responded'))
              /\ Last(responded').query = qi
              /\ Last(responded').response = responses
              /\ forum' = forum
              /\ ~Failed \/ attempt = retries0
              /\ IF qi < Len(queries)
                 THEN pc' = "loop" /\ qi' = qi + 1 /\ attempt' = 0
                 ELSE pc' = "done"]_vars
    /\ [][(pc = "check" /\ pc' \notin Navigating) => Forwards]_vars
    /\ [][(pc = "plan" /\ queries' = <<>>)
           => pc' = "done" /\ forum' = forum /\ responded' = responded]_vars
    /\ []((pc = "done" /\ queries = <<>>)
          => responded = <<>> /\ request = 0 /\ responses = 0 /\ ~ENABLED Next)

\* the two attempts at the first query failed and the second query was
\* attempted and forwarded as well
C29_Witness ==
    /\ pc = "done" /\ retries0 = 2
    /\ Len(queries) = 2 /\ Len(responded) = 2
    /\ forum[responded[1].response].error # ""
    /\ responded[1].response # responded[2].response
    /\ Cardinality(SentByFinder) = 4
    /\ forum[AttemptRequest(responded[2].response)].content = queries[2]

\* the plan has no query
C29_WitnessNoQuery == pc = "done" /\ queries = <<>> /\ Len(forum) = 1


-----------------------------------------------------------------------------
(* render_user_utterances: checked under RenderSpec *)

MaxHistory == 3     \* messages of the history that is rendered

USER_ALIAS == "USER"

\* a message of the history: who sent it first, and its content
Utterances == {USER_ALIAS, PDF_FINDER_AGENT} \X {Question, Query(1)}

\* the histories of one to MaxHistory messages
Histories == SeqsUpTo(Utterances, MaxHistory) \ {<<>>}

\* the history as a branch of the forum
Conversation(h) == [k \in 1..Len(h) |-> Msg(k - 1, h[k][1], h[k][2], {}, {}, "")]

\* list.pop(i)
pop(list, i) == SubSeq(list, 1, i - 1) \o SubSeq(list, i + 1, Len(list))

\* arender_conversation: one line per message, the alias and the content
arender_conversation(history) ==
    [k \in 1..Len(history) |-> <<history[k].sender, history[k].content>>]

\* a loop from the first message to the last one
RECURSIVE render_forwards(_, _, _)
render_forwards(history, i, encountered_messages) ==
    IF i > Len(history) THEN arender_conversation(history)
    ELSE IF \/ history[i].sender # USER_ALIAS
            \/ history[i].content \in encountered_messages
         THEN render_forwards(pop(history, i), i, encountered_messages)
         ELSE render_forwards(history, i + 1,
                              encountered_messages \cup {history[i].content})

first_utterances(history) == render_forwards(history, 1, {})

\* lines 406-410: the loop from the last message to the first one, with the
\* messages before position i still to be looked at
RECURSIVE render_backwards(_, _, _)
render_backwards(history, i, encountered_messages) ==
    IF i = 0 THEN arender_conversation(history)
    ELSE IF \/ history[i].sender # USER_ALIAS
            \/ history[i].content \in encountered_messages
         THEN render_backwards(pop(history, i), i - 1, encountered_messages)
         ELSE render_backwards(history, i - 1,
                               encountered_messages \cup {history[i].content})

render_user_utterances(history) == render_backwards(history, Len(history), {})

RenderInit ==
    /\ \E h \in Histories : forum = Conversation(h)
    /\ request = Len(forum)
    /\ pc = "idle"
    /\ queries = <<>>
    /\ qi = 0
    /\ attempt = 0
    /\ responses = 0
    /\ depth0 = 1
    /\ retries0 = 1
    /\ serving = WideWeb
    /\ serpapi = Ranking
    /\ depth = depth0
    /\ prompt = NoPrompt
    /\ replies = <<>>
    /\ answers = <<>>
    /\ steps = 0
    /\ ops = [search |-> 0, fetch |-> 0, model |-> 0]
    /\ fetched = {}
    /\ dispatched = {}
    /\ earlier = {}
    /\ responded = <<>>
    /\ asked = 1
    /\ gpc = "off"
    /\ research_idx = 0
    /\ accumulated_context = <<>>
    /\ assistant_responses = <<>>
    /\ final_answer = <<>>
    /\ pdf_reader = <<>>
    /\ pdf_text = <<>>
    /\ CAPTURED_DATA = NoCapturedData
    /\ files = {}
    /\ other = "off"
    /\ user_utterances = <<>>

\* lines 400-412
RenderUserUtterances ==
    /\ pc = "idle"
    /\ user_utterances = <<>>
    /\ user_utterances' = <<render_user_utterances(full_history(forum, request))>>
    /\ UNCHANGED <<forum, pc, queries, qi, attempt, responses, request, depth, depth0,
                   retries0, serving, serpapi, prompt, replies, answers, steps, ops,
                   fetched, dispatched, earlier, responded, asked, gpc, research_idx,
                   accumulated_context, assistant_responses, final_answer, pdf_reader,
                   pdf_text, CAPTURED_DATA, files, other>>

RenderNext == RenderUserUtterances

RenderSpec == RenderInit /\ [][RenderNext]_vars

\* the positions of the history that hold what the user said and whose
\* content the user does not say again later
LastSaid(history) ==
    {i \in 1..Len(history) :
        /\ history[i].sender = USER_ALIAS
        /\ \A j \in i + 1..Len(history) :
             history[j].sender = USER_ALIAS => history[j].content # history[i].content}

\* the k-th position of a set of positions
Kth(positions, k) ==
    CHOOSE i \in positions : Cardinality({j \in positions : j <= i}) = k

\* C30: what is rendered are messages of the user only, one for every
\* content the user said, the last message with that content, in the order
\* they have in the history.
C30_LastOccurrenceInOrder ==
    user_utterances # <<>>
    => LET history == full_history(forum, request)
           kept == LastSaid(history)
           rendered == user_utterances[1]
       IN  /\ Len(rendered) = Cardinality(kept)
           /\ \A k \in 1..Len(rendered) :
                rendered[k] = <<USER_ALIAS, history[Kth(kept, k)].content>>
           /\ \A k, l \in 1..Len(rendered) : k # l => rendered[k] # rendered[l]
           /\ \A i \in 1..Len(history) :
                history[i].sender = USER_ALIAS
                => \E k \in 1..Len(rendered) : rendered[k][2] = history[i].content

\* the user repeats the question after something else: the later one is kept
C30_Witness ==
    /\ Len(forum) = 3
    /\ \A i \in 1..3 : forum[i].sender = USER_ALIAS
    /\ forum[1].content = Question /\ forum[2].content = Query(1)
    /\ forum[3].content = Question
    /\ user_utterances = <<(<<(<<USER_ALIAS, Query(1)>>), (<<USER_ALIAS, Question>>)>>)>>

=============================================================================
